---- MODULE Spec2Model ----
(***************************************************************************)
(* Scrape coverage auditor (src/data/scrape_audit.py).                     *)
(*                                                                         *)
(* Strings are modelled by their structure:                                *)
(*   - a title is a sequence of one-character strings;                     *)
(*   - a host name is the sequence of its dot-separated labels;            *)
(*   - a URL string is the record of the components urlsplit gives for it  *)
(*     (form, scheme, host, port, path, query); a path is the sequence of  *)
(*     its "/" tokens and segment tokens;                                  *)
(*   - a date string is a record of its lexical form and its day.          *)
(*   - an event key "url::<u>" is [kind |-> "url", url |-> u], a key       *)
(*     "title::<t>::date::<d>" is [kind |-> "title", title |-> t,          *)
(*     date |-> d] (a normalized title holds no ":", so the string form is *)
(*     injective on these records).                                        *)
(* Python's None is a record of its own (NoUrl, NoDate, NoneVal).          *)
(***************************************************************************)
EXTENDS Integers, Sequences, FiniteSets, TLC

VARIABLES
    pc,            \* position of main
    args,          \* parsed CLI arguments and the existence of the input files
    registry,      \* content of the registry file (list of venue records)
    cache,         \* content of the cache file
    selected,      \* venues selected for the run
    dropped_dupes, \* duplicates dropped by unique_venues_by_domain_calendar
    idx,           \* 1-based index of the venue being audited
    fetched,       \* fetch results of the venue being audited
    rows,          \* the row list of main
    net,           \* log of the fetches issued, in order
    out_json,      \* content of the JSON report file
    out_md,        \* content of the Markdown report file
    exit_code,     \* return value of main
    fin,           \* input of the function under study
    fout,          \* its result
    fpc            \* its position

vars == <<pc, args, registry, cache, selected, dropped_dupes, idx, fetched,
          rows, net, out_json, out_md, exit_code, fin, fout, fpc>>

mainVars == <<pc, args, registry, cache, selected, dropped_dupes, idx, fetched,
              rows, net, out_json, out_md, exit_code>>

fnVars == <<fin, fout, fpc>>

\* the variables of main, in the specifications that do not run main
MainIdle ==
    /\ pc = "idle"
    /\ args = <<>>
    /\ registry = <<>>
    /\ cache = <<>>
    /\ selected = <<>>
    /\ dropped_dupes = 0
    /\ idx = 0
    /\ fetched = <<>>
    /\ rows = <<>>
    /\ net = <<>>
    /\ out_json = <<>>
    /\ out_md = <<>>
    /\ exit_code = 0

\* the variables of the function under study, when main runs
FnIdle ==
    /\ fin = <<>>
    /\ fout = <<>>
    /\ fpc = "idle"

(***************************************************************************)
(* Bounds of the model.                                                    *)
(***************************************************************************)
MaxVenues == 2        \* longest registry
MaxCacheEvents == 2   \* longest cached event list of a venue
MaxCount == 3         \* largest count given to classify_confidence
MaxPathLen == 3       \* longest path (in tokens) given to canonicalize_url
MaxFeedItems == 2     \* most VEVENT blocks of a feed, most hrefs of a page

(***************************************************************************)
(* Text helpers (str.lower, str.strip, re.sub).                            *)
(***************************************************************************)
Lower(c) ==
    CASE c = "J" -> "j"
      [] c = "N" -> "n"
      [] c = "WWW" -> "www"
      [] c = "Venue" -> "venue"
      [] c = "HTTP" -> "http"
      [] c = "HTTPS" -> "https"
      [] c = "Events" -> "events"
      [] OTHER -> c

LowerSeq(s) == [i \in 1..Len(s) |-> Lower(s[i])]

RECURSIVE LStrip(_, _)
LStrip(s, ch) == IF s # <<>> /\ Head(s) = ch THEN LStrip(Tail(s), ch) ELSE s

RECURSIVE RStrip(_, _)
RStrip(s, ch) ==
    IF s # <<>> /\ s[Len(s)] = ch THEN RStrip(SubSeq(s, 1, Len(s) - 1), ch) ELSE s

Strip(s) == RStrip(LStrip(s, " "), " ")

\* re.sub of a run of `ch` (two or more, or one or more: the result is the same)
\* by a single `ch`
RECURSIVE CollapseRuns(_, _)
CollapseRuns(s, ch) ==
    IF Len(s) < 2 THEN s
    ELSE IF s[1] = ch /\ s[2] = ch THEN CollapseRuns(Tail(s), ch)
    ELSE <<s[1]>> \o CollapseRuns(Tail(s), ch)

IsSuffix(t, s) ==
    /\ Len(t) <= Len(s)
    /\ SubSeq(s, Len(s) - Len(t) + 1, Len(s)) = t

(***************************************************************************)
(* URLs.                                                                   *)
(***************************************************************************)
NoUrl == [form |-> "none"]

Url(s, h, p, pa, q) ==
    [form |-> "abs", scheme |-> s, host |-> h, port |-> p, path |-> pa, query |-> q]

\* urlsplit(u).hostname: lower-cased, None (<<>>) when the string has no netloc
Hostname(u) == IF u.form = "abs" THEN LowerSeq(u.host) ELSE <<>>

normalize_host(host) ==
    IF host = <<>> THEN <<>>
    ELSE LET normalized == LowerSeq(host)
         IN  IF Len(normalized) >= 2 /\ normalized[1] = "www"
             THEN Tail(normalized)
             ELSE normalized

\* urllib.parse.urljoin(base, raw) for the forms of raw the model draws
urljoin(base, raw) ==
    CASE raw.form = "abs" -> raw
      [] raw.form = "abspath" ->
           IF base.form = "abs"
           THEN Url(base.scheme, base.host, base.port, raw.path, raw.query)
           ELSE raw
      [] OTHER -> raw

canonicalize_url(candidate, base_url) ==
    IF candidate.form \in {"none", "mailto"} THEN NoUrl
    ELSE
      LET raw == IF candidate.form = "protorel"
                 THEN Url("https", candidate.host, candidate.port,
                          candidate.path, candidate.query)
                 ELSE candidate
          parsed == urljoin(base_url, raw)
      IN  IF parsed.form # "abs" THEN NoUrl
          ELSE IF Lower(parsed.scheme) \notin {"http", "https"} THEN NoUrl
          ELSE
            LET host == normalize_host(Hostname(parsed))
                p0   == CollapseRuns(IF parsed.path = <<>> THEN <<"/">> ELSE parsed.path, "/")
                path == IF p0 # <<"/">> THEN RStrip(p0, "/") ELSE p0
            IN  IF host = <<>> THEN NoUrl
                ELSE Url(Lower(parsed.scheme), host, parsed.port, path, "")

is_same_site(url, domain) ==
    LET host   == normalize_host(Hostname(url))
        target == normalize_host(domain)
    IN  IF host = <<>> \/ target = <<>> THEN FALSE
        ELSE \/ host = target
             \/ (Len(host) > Len(target) /\ IsSuffix(target, host))
             \/ (Len(target) > Len(host) /\ IsSuffix(host, target))

(***************************************************************************)
(* Titles, dates and event keys.                                           *)
(***************************************************************************)
NoDate == [fmt |-> "none"]
EmptyDate == [fmt |-> "empty"]

\* "2025-09-0<d>" followed by tm
IsoDate(d, tm) == [fmt |-> "iso", d |-> d, tm |-> tm]

\* "2025090<d>" followed by tm
CompactDate(d, tm) == [fmt |-> "compact", d |-> d, tm |-> tm]

TextDate(s) == [fmt |-> "text", s |-> s]

KeyChars ==
    {"a", "b", "c", "d", "e", "f", "g", "h", "i", "j", "k", "l", "m", "n", "o",
     "p", "q", "r", "s", "t", "u", "v", "w", "x", "y", "z",
     "0", "1", "2", "3", "4", "5", "6", "7", "8", "9", " ", "-"}

IsKeyChar(c) == c \in KeyChars

decode_ics_value(value) ==
    Strip([i \in 1..Len(value) |->
             CASE value[i] = "\\n" -> " "
               [] value[i] = "\\," -> ","
               [] value[i] = "\\;" -> ";"
               [] OTHER -> value[i]])

parse_ics_datetime(raw) ==
    IF raw.fmt = "compact" /\ raw.tm = "" THEN IsoDate(raw.d, "T00:00:00")
    ELSE IF raw.fmt = "compact" /\ raw.tm \in {"T190000", "T190000Z"}
         THEN IsoDate(raw.d, "T19:00:00")
    ELSE IF raw.fmt = "compact" /\ raw.tm \in {"T1900", "T1900Z"}
         THEN IsoDate(raw.d, "T19:00:00")
    ELSE NoDate

normalize_title_for_key(title) ==
    IF title = <<>> THEN <<>>
    ELSE LET lowered   == Strip(LowerSeq(title))
             collapsed == CollapseRuns(lowered, " ")
         IN  Strip(SelectSeq(collapsed, IsKeyChar))

normalize_date_for_key(value) ==
    CASE value.fmt \in {"none", "empty"} -> EmptyDate
      [] value.fmt = "iso" -> IsoDate(value.d, "")
      [] value.fmt = "compact" -> IsoDate(value.d, "")
      [] OTHER -> TextDate(Lower(value.s))

UrlKey(u) == [kind |-> "url", url |-> u]

TitleKey(t, d) == [kind |-> "title", title |-> t, date |-> d]

\* the mutant: a titled event is keyed by its title
make_event_key_title_first(event_url, title, start_date, base_url) ==
    LET canonical_url == canonicalize_url(event_url, base_url)
    IN  IF canonical_url # NoUrl /\ title = <<>>
        THEN UrlKey(canonical_url)
        ELSE TitleKey(normalize_title_for_key(title), normalize_date_for_key(start_date))

make_event_key(event_url, title, start_date, base_url) ==
    LET canonical_url == canonicalize_url(event_url, base_url)
    IN  IF canonical_url # NoUrl
        THEN UrlKey(canonical_url)
        ELSE TitleKey(normalize_title_for_key(title), normalize_date_for_key(start_date))

(***************************************************************************)
(* Fetched bodies and the source parsers.                                  *)
(*   EmptyBody        ""                                                   *)
(*   IcsBody(blocks)  a feed starting with BEGIN:VCALENDAR; a block is the *)
(*                    sequence of the FIELD:VALUE lines of one VEVENT      *)
(*   HtmlBody(hrefs)  an HTML page with these href attributes, in order    *)
(*   MdBody(items)    a reader-rendered page: Markdown links [t](u) and    *)
(*                    bare URLs, in text order                             *)
(***************************************************************************)
EmptyBody == [kind |-> "empty"]

IcsBody(blocks) == [kind |-> "ics", blocks |-> blocks]

HtmlBody(hrefs) == [kind |-> "html", hrefs |-> hrefs]

MdBody(items) == [kind |-> "md", items |-> items]

Line(f, v) == [f |-> f, v |-> v]

MdLink(title, url) == [t |-> "link", title |-> title, url |-> url]

MdBare(url) == [t |-> "bare", title |-> <<>>, url |-> url]

Event(key, url, title, date) ==
    [key |-> key, eventUrl |-> url, title |-> title, startDate |-> date]

KeysOf(events) == {events[i].key : i \in 1..Len(events)}

Upper(c) ==
    CASE c = "cancelled" -> "CANCELLED"
      [] c = "Cancelled" -> "CANCELLED"
      [] c = "confirmed" -> "CONFIRMED"
      [] OTHER -> c

\* ".ics" in url.lower() or "ical=1" in url.lower()
HasIcsMarker(u) ==
    /\ u.form = "abs"
    /\ \/ \E i \in 1..Len(u.path) : Lower(u.path[i]) \in {"events.ics", "calendar.ics"}
       \/ u.query = "ical=1"

detect_source_type(calendar_url, jina_text, raw_text) ==
    IF HasIcsMarker(calendar_url) THEN "ICS"
    ELSE IF jina_text.kind = "ics" \/ raw_text.kind = "ics" THEN "ICS"
    ELSE "HTML"

\* dict built from the lines of a block: the last line of a field wins
FieldOf(block, f, default) ==
    LET at == {i \in 1..Len(block) : block[i].f = f}
    IN  IF at = {} THEN default
        ELSE block[CHOOSE i \in at : \A j \in at : j <= i].v

\* the mutant: a URL of another site is kept
RECURSIVE ics_events_keep_external_url(_, _, _, _)
ics_events_keep_external_url(parsed, calendar_url, domain, out) ==
    IF parsed = <<>> THEN out
    ELSE
      LET event      == Head(parsed)
          status     == Upper(FieldOf(event, "STATUS", ""))
          title      == decode_ics_value(FieldOf(event, "SUMMARY", <<>>))
          start_date == parse_ics_datetime(FieldOf(event, "DTSTART", EmptyDate))
          raw_url    == FieldOf(event, "URL", NoUrl)
          event_url  == canonicalize_url(raw_url, calendar_url)
          key        == make_event_key(event_url, title, start_date, calendar_url)
      IN  IF status = "CANCELLED"
          THEN ics_events_keep_external_url(Tail(parsed), calendar_url, domain, out)
          ELSE IF title = <<>> /\ event_url = NoUrl
               THEN ics_events_keep_external_url(Tail(parsed), calendar_url, domain, out)
          ELSE IF key \in KeysOf(out)
               THEN ics_events_keep_external_url(Tail(parsed), calendar_url, domain, out)
          ELSE ics_events_keep_external_url(Tail(parsed), calendar_url, domain,
                                            Append(out, Event(key, event_url, title, start_date)))

\* the mutant: the STATUS of a VEVENT is not looked at
RECURSIVE ics_events_keep_cancelled(_, _, _, _)
ics_events_keep_cancelled(parsed, calendar_url, domain, out) ==
    IF parsed = <<>> THEN out
    ELSE
      LET event      == Head(parsed)
          title      == decode_ics_value(FieldOf(event, "SUMMARY", <<>>))
          start_date == parse_ics_datetime(FieldOf(event, "DTSTART", EmptyDate))
          raw_url    == FieldOf(event, "URL", NoUrl)
          resolved   == canonicalize_url(raw_url, calendar_url)
          event_url  == IF resolved # NoUrl /\ ~is_same_site(resolved, domain)
                        THEN NoUrl ELSE resolved
          key        == make_event_key(event_url, title, start_date, calendar_url)
      IN  IF title = <<>> /\ event_url = NoUrl
          THEN ics_events_keep_cancelled(Tail(parsed), calendar_url, domain, out)
          ELSE IF key \in KeysOf(out)
               THEN ics_events_keep_cancelled(Tail(parsed), calendar_url, domain, out)
          ELSE ics_events_keep_cancelled(Tail(parsed), calendar_url, domain,
                                         Append(out, Event(key, event_url, title, start_date)))

RECURSIVE ics_events(_, _, _, _)
ics_events(parsed, calendar_url, domain, out) ==
    IF parsed = <<>> THEN out
    ELSE
      LET event      == Head(parsed)
          status     == Upper(FieldOf(event, "STATUS", ""))
          title      == decode_ics_value(FieldOf(event, "SUMMARY", <<>>))
          start_date == parse_ics_datetime(FieldOf(event, "DTSTART", EmptyDate))
          raw_url    == FieldOf(event, "URL", NoUrl)
          resolved   == canonicalize_url(raw_url, calendar_url)
          event_url  == IF resolved # NoUrl /\ ~is_same_site(resolved, domain)
                        THEN NoUrl ELSE resolved
          key        == make_event_key(event_url, title, start_date, calendar_url)
      IN  IF status = "CANCELLED" THEN ics_events(Tail(parsed), calendar_url, domain, out)
          ELSE IF title = <<>> /\ event_url = NoUrl
               THEN ics_events(Tail(parsed), calendar_url, domain, out)
          ELSE IF key \in KeysOf(out)
               THEN ics_events(Tail(parsed), calendar_url, domain, out)
          ELSE ics_events(Tail(parsed), calendar_url, domain,
                          Append(out, Event(key, event_url, title, start_date)))

parse_ics_events(ics_text, calendar_url, domain) ==
    ics_events(IF ics_text.kind = "ics" THEN ics_text.blocks ELSE <<>>,
               calendar_url, domain, <<>>)

(***************************************************************************)
(* likely_event_url: the regular expressions, read on the token sequence   *)
(* of the lower-cased path. Every pattern starts with "/", so a match      *)
(* starts at a "/" token and the text after it is the start of a segment.  *)
(***************************************************************************)
At(p, i) == IF i \in 1..Len(p) THEN p[i] ELSE "$"

\* segment tokens of the model that start with the given text
StartsWith(seg, prefix) ==
    CASE prefix = "feed" -> seg \in {"feed", "feedback"}
      [] prefix = "list" -> seg \in {"list", "listening-party"}
      [] prefix = "cart" -> seg \in {"cart", "cartoon-night"}
      [] prefix = "ticket" -> seg \in {"ticket", "tickets"}
      [] OTHER -> seg = prefix

IsDigits(seg) == seg \in {"1", "2", "3", "9"}

IsDateSeg(seg) == seg \in {"2025-09-01", "2025-09-02"}

ListingNames == {"feed", "month", "list", "map", "day", "week", "calendar"}

TaxonomyNames == {"category", "tag", "venue", "organizer"}

UtilityPrefixes == {"wp-json", "rss", "search", "cart", "checkout", "login", "signup"}

IsVersionSeg(seg) == seg \in {"v1", "v2"}

MatchesExclude(path) ==
    \E i \in 1..Len(path) :
      /\ path[i] = "/"
      /\ \/ At(path, i + 1) \in {"event", "events"} /\ At(path, i + 2) = "$"
         \/ /\ At(path, i + 1) = "events" /\ At(path, i + 2) = "/"
            /\ At(path, i + 3) = "page" /\ At(path, i + 4) = "/"
            /\ IsDigits(At(path, i + 5))
            /\ \/ At(path, i + 6) = "$"
               \/ At(path, i + 6) = "/" /\ At(path, i + 7) = "$"
         \/ /\ At(path, i + 1) = "events" /\ At(path, i + 2) = "/"
            /\ \E n \in ListingNames : StartsWith(At(path, i + 3), n)
         \/ /\ At(path, i + 1) = "events" /\ At(path, i + 2) = "/"
            /\ At(path, i + 3) \in TaxonomyNames /\ At(path, i + 4) = "/"
         \/ /\ At(path, i + 1) = "events" /\ At(path, i + 2) = "/"
            /\ IsVersionSeg(At(path, i + 3))
            /\ \/ At(path, i + 4) = "$"
               \/ At(path, i + 4) = "/" /\ At(path, i + 5) = "$"
         \/ \E n \in UtilityPrefixes : StartsWith(At(path, i + 1), n)
         \/ At(path, i + 1) = "api" /\ At(path, i + 2) = "/"

\* /\d{4}-\d{2}-\d{2}(?:/\d+)?/?$
EndsInDate(path) ==
    \E i \in 1..Len(path) :
      /\ path[i] = "/"
      /\ IsDateSeg(At(path, i + 1))
      /\ \/ At(path, i + 2) = "$"
         \/ At(path, i + 2) = "/" /\ At(path, i + 3) = "$"
         \/ /\ At(path, i + 2) = "/" /\ IsDigits(At(path, i + 3))
            /\ \/ At(path, i + 4) = "$"
               \/ At(path, i + 4) = "/" /\ At(path, i + 5) = "$"

MatchesInclude(path) ==
    \E i \in 1..Len(path) :
      /\ path[i] = "/"
      /\ \/ /\ At(path, i + 1) \in {"event", "events", "show", "shows", "tm-event",
                                    "program", "programs"}
            /\ At(path, i + 2) = "/"
         \/ StartsWith(At(path, i + 1), "ticket")
         \/ StartsWith(At(path, i + 1), "buy-tickets")

\* the mutant: inclusions are checked before exclusions
likely_event_url_include_first(url) ==
    LET path == LowerSeq(url.path)
    IN  IF EndsInDate(path) \/ MatchesInclude(path) THEN TRUE
        ELSE FALSE

likely_event_url(url) ==
    LET path == LowerSeq(url.path)
    IN  IF MatchesExclude(path) THEN FALSE
        ELSE IF EndsInDate(path) THEN TRUE
        ELSE MatchesInclude(path)

(***************************************************************************)
(* The HTML / Markdown extractor.                                          *)
(***************************************************************************)
extract_html_hrefs(html_text) ==
    IF html_text.kind = "html" THEN html_text.hrefs ELSE <<>>

extract_markdown_links(md_text) ==
    IF md_text.kind = "md"
    THEN SelectSeq(md_text.items, LAMBDA it : it.t = "link")
    ELSE <<>>

\* https?://... occurrences: the bare URLs, and the absolute URLs of the
\* Markdown links, which the expression finds inside their parentheses
extract_bare_urls(text) ==
    IF text.kind = "md"
    THEN LET found == SelectSeq(text.items,
                        LAMBDA it : it.url.form = "abs" /\ it.url.scheme \in {"http", "https"})
         IN  [i \in 1..Len(found) |-> found[i].url]
    ELSE <<>>

TitleCase(seg) ==
    CASE seg = "jazz" -> "Jazz"
      [] seg = "blues" -> "Blues"
      [] seg = "events" -> "Events"
      [] OTHER -> seg

Segments(path) == SelectSeq(path, LAMBDA tok : tok # "/")

infer_title_from_url(url) ==
    LET path_parts == Segments(url.path)
        n == Len(path_parts)
    IN  IF n = 0 THEN <<>>
        ELSE IF (IsDigits(path_parts[n]) \/ IsDateSeg(path_parts[n])) /\ n > 1
             THEN <<TitleCase(path_parts[n - 1])>>
        ELSE <<TitleCase(path_parts[n])>>

DayOf(seg) == IF seg = "2025-09-01" THEN 1 ELSE 2

infer_start_date_from_url(url) ==
    IF EndsInDate(url.path)
    THEN LET i == CHOOSE k \in 1..Len(url.path) : IsDateSeg(url.path[k])
                     /\ \A j \in (k + 1)..Len(url.path) : ~IsDateSeg(url.path[j])
         IN  IsoDate(DayOf(url.path[i]), "T19:00:00")
    ELSE NoDate

html_candidates(raw_text, jina_text) ==
    LET hrefs == extract_html_hrefs(raw_text)
        links == extract_markdown_links(jina_text)
        bare  == extract_bare_urls(jina_text)
    IN  [i \in 1..Len(hrefs) |-> [title |-> <<>>, url |-> hrefs[i]]]
        \o [i \in 1..Len(links) |-> [title |-> links[i].title, url |-> links[i].url]]
        \o [i \in 1..Len(bare) |-> [title |-> <<>>, url |-> bare[i]]]

RECURSIVE html_events(_, _, _, _)
html_events(candidates, calendar_url, domain, out) ==
    IF candidates = <<>> THEN out
    ELSE
      LET c         == Head(candidates)
          canonical == canonicalize_url(c.url, calendar_url)
          rest      == Tail(candidates)
      IN  IF canonical = NoUrl THEN html_events(rest, calendar_url, domain, out)
          ELSE IF ~is_same_site(canonical, domain)
               THEN html_events(rest, calendar_url, domain, out)
          ELSE IF ~likely_event_url(canonical)
               THEN html_events(rest, calendar_url, domain, out)
          ELSE
            LET inferred_title == IF c.title # <<>> THEN c.title
                                  ELSE infer_title_from_url(canonical)
                start_date == infer_start_date_from_url(canonical)
                key == make_event_key(canonical, inferred_title, start_date, calendar_url)
            IN  IF key \in KeysOf(out) THEN html_events(rest, calendar_url, domain, out)
                ELSE html_events(rest, calendar_url, domain,
                                 Append(out, Event(key, canonical, inferred_title, start_date)))

parse_html_events(calendar_url, domain, raw_text, jina_text) ==
    html_events(html_candidates(raw_text, jina_text), calendar_url, domain, <<>>)

(***************************************************************************)
(* Confidence classification.                                              *)
(***************************************************************************)
\* the mutant: the no-source rule is tried before the no-gap rule
classify_confidence_source_first(source_event_count, missing_count, fetch_error, cache_event_count, missing_urls) ==
    IF source_event_count = 0 THEN "unknown"
    ELSE IF missing_count = 0 THEN "none"
    ELSE IF fetch_error THEN "low"
    ELSE IF cache_event_count > 0 /\ missing_urls = cache_event_count THEN "medium"
    ELSE "high"

classify_confidence(source_event_count, missing_count, fetch_error, cache_event_count, missing_urls) ==
    IF missing_count = 0 THEN "none"
    ELSE IF source_event_count = 0 THEN "unknown"
    ELSE IF fetch_error THEN "low"
    ELSE IF cache_event_count > 0 /\ missing_urls = cache_event_count THEN "medium"
    ELSE "high"

(***************************************************************************)
(* The cache reader, the coverage diff and audit_venue.                    *)
(* The cache's "venues" mapping is the sequence of its (key, entry) pairs  *)
(* in file order; a cached event that is no JSON object is BadEvent.       *)
(***************************************************************************)
NoError == ""    \* None: the text of an error is never empty

NoneVal == [none |-> TRUE]

Some(v) == [none |-> FALSE, v |-> v]

CachedEvent(url, title, date) ==
    [ok |-> TRUE, eventUrl |-> url, title |-> title, startDate |-> date]

BadEvent == [ok |-> FALSE]

NoEntry == [events |-> <<>>]

\* the mutant: a domain that matches no key gets the first entry of the cache
get_cache_venue_first_entry(venues, domain) ==
    LET exact == {i \in 1..Len(venues) : venues[i].key = domain}
        norm  == {i \in 1..Len(venues) :
                    normalize_host(venues[i].key) = normalize_host(domain)}
        first(S) == CHOOSE i \in S : \A j \in S : i <= j
    IN  IF exact # {} THEN venues[first(exact)].entry
        ELSE IF norm # {} THEN venues[first(norm)].entry
        ELSE IF venues # <<>> THEN venues[1].entry
        ELSE NoEntry

get_cache_venue(venues, domain) ==
    LET exact == {i \in 1..Len(venues) : venues[i].key = domain}
        norm  == {i \in 1..Len(venues) :
                    normalize_host(venues[i].key) = normalize_host(domain)}
        first(S) == CHOOSE i \in S : \A j \in S : i <= j
    IN  IF exact # {} THEN venues[first(exact)].entry
        ELSE IF norm # {} THEN venues[first(norm)].entry
        ELSE NoEntry

\* event.get(...) on an event that is no dict raises AttributeError
CacheRaises(cache_raw_events) ==
    \E i \in 1..Len(cache_raw_events) : ~cache_raw_events[i].ok

parse_cache_events(cache_events, calendar_url) ==
    [i \in 1..Len(cache_events) |->
       Event(make_event_key(cache_events[i].eventUrl, cache_events[i].title,
                            cache_events[i].startDate, calendar_url),
             canonicalize_url(cache_events[i].eventUrl, calendar_url),
             cache_events[i].title,
             cache_events[i].startDate)]

missing_url_count(cache_events_parsed) ==
    Cardinality({i \in 1..Len(cache_events_parsed) :
                   cache_events_parsed[i].eventUrl = NoUrl})

key_to_display(key) == IF key.kind = "url" THEN [kind |-> "bare", url |-> key.url] ELSE key

\* the mutant: every source key is reported missing
coverage_diff_all_missing(source_keys, cache_keys) ==
    [missing |-> source_keys,
     extra |-> cache_keys \ source_keys,
     intersection_count |-> Cardinality(source_keys \cap cache_keys)]

coverage_diff(source_keys, cache_keys) ==
    [missing |-> source_keys \ cache_keys,
     extra |-> cache_keys \ source_keys,
     intersection_count |-> Cardinality(source_keys \cap cache_keys)]

\* the mutant: a venue without source events has coverage 0, not null
coverage_ratio_zero_without_source(intersection_count, source_count) ==
    IF source_count > 0
    THEN Some((2 * 10000 * intersection_count + source_count) \div (2 * source_count))
    ELSE Some(0)

\* round(intersection_count / source_count, 4), in ten-thousandths; a quotient
\* half-way between two ten-thousandths needs source_count >= 32
coverage_ratio(intersection_count, source_count) ==
    IF source_count > 0
    THEN Some((2 * 10000 * intersection_count + source_count) \div (2 * source_count))
    ELSE NoneVal

Venue(domain, calendar_url) == [domain |-> domain, calendar_url |-> calendar_url]

\* the locals of audit_venue once the two fetches have returned
audit_locals(venue, venues, jina, raw) ==
    LET domain        == venue.domain
        calendar_url  == venue.calendar_url
        source_type   == detect_source_type(calendar_url, jina.text, raw.text)
        source_events ==
            IF source_type = "ICS"
            THEN parse_ics_events(IF jina.text # EmptyBody THEN jina.text ELSE raw.text,
                                  calendar_url, domain)
            ELSE parse_html_events(calendar_url, domain, raw.text, jina.text)
        source_keys   == KeysOf(source_events)
        cache_raw_events == get_cache_venue(venues, domain).events
        cache_events  == parse_cache_events(cache_raw_events, calendar_url)
        cache_keys    == KeysOf(cache_events)
        diff          == coverage_diff(source_keys, cache_keys)
        source_count  == Cardinality(source_keys)
        fetch_error   == jina.error # NoError \/ raw.error # NoError
    IN  [source_events |-> source_events,
         cache_raw_events |-> cache_raw_events,
         cache_events  |-> cache_events,
         row |->
           [domain |-> domain,
            calendar_url |-> calendar_url,
            source_type |-> source_type,
            source_event_count |-> source_count,
            cache_event_count |-> Cardinality(cache_keys),
            coverage_ratio |-> coverage_ratio(diff.intersection_count, source_count),
            missing_count |-> Cardinality(diff.missing),
            extra_count |-> Cardinality(diff.extra),
            intersection_count |-> diff.intersection_count,
            missing_examples |-> {key_to_display(k) : k \in diff.missing},
            extra_examples |-> {key_to_display(k) : k \in diff.extra},
            missing_url_count |-> missing_url_count(cache_events),
            fetch_errors |-> [jina_error |-> jina.error # NoError,
                              raw_error |-> raw.error # NoError,
                              jina_error_detail |-> jina.error,
                              raw_error_detail |-> raw.error],
            confidence |-> classify_confidence(source_count, Cardinality(diff.missing),
                                               fetch_error, Cardinality(cache_keys),
                                               missing_url_count(cache_events))]]

\* fetch_text: (text, None) or (None, error); fetch_source keeps `text or ""`
FetchOk(body) == [text |-> body, error |-> NoError]

FetchFailed(error) == [text |-> EmptyBody, error |-> error]

(***************************************************************************)
(* main: venue selection, the degraded row, the sort of the rows, the      *)
(* summary.                                                                *)
(***************************************************************************)
\* a calendar_url that is no URL at all but starts with "http" ("httpfoo")
OpaqueUrl == [form |-> "opaque"]

\* str(v.get("calendar_url", "")).startswith("http")
Eligible(v) ==
    \/ v.calendar_url.form = "abs" /\ v.calendar_url.scheme \in {"http", "https"}
    \/ v.calendar_url.form = "opaque"

\* calendar_url.strip().rstrip("/")
RStripUrl(u) ==
    IF u.form = "abs" /\ u.query = "" THEN [u EXCEPT !.path = RStrip(u.path, "/")] ELSE u

VenueIdentity(venue) == <<normalize_host(venue.domain), RStripUrl(venue.calendar_url)>>

RECURSIVE unique_loop(_, _, _)
unique_loop(venues, unique, duplicates) ==
    IF venues = <<>> THEN [unique |-> unique, duplicates |-> duplicates]
    ELSE IF VenueIdentity(Head(venues)) \in {VenueIdentity(unique[i]) : i \in 1..Len(unique)}
         THEN unique_loop(Tail(venues), unique, duplicates + 1)
    ELSE unique_loop(Tail(venues), Append(unique, Head(venues)), duplicates)

unique_venues_by_domain_calendar(venues) == unique_loop(venues, <<>>, 0)

Max2(a, b) == IF a >= b THEN a ELSE b

Min2(a, b) == IF a <= b THEN a ELSE b

\* the mutant: the range is tested before end is clamped to the venue count
select_venues_unclamped_test(a, reg) ==
    LET eligible  == SelectSeq(reg, Eligible)
        deduped   == unique_venues_by_domain_calendar(eligible)
        venues    == deduped.unique
        start_idx == Max2(1, a.start)
        raw_end   == IF a.end.none THEN Len(venues) ELSE a.end.v
        end_idx   == Min2(raw_end, Len(venues))
        ranged    == SubSeq(venues, start_idx, end_idx)
    IN  [invalid  |-> start_idx > raw_end,
         dropped  |-> deduped.duplicates,
         selected |-> IF start_idx > end_idx THEN <<>>
                      ELSE IF a.max_venues.none THEN ranged
                      ELSE SubSeq(ranged, 1, Min2(Len(ranged), Max2(0, a.max_venues.v)))]

\* the selection of main, or the input error that ends the run
select_venues(a, reg) ==
    LET eligible  == SelectSeq(reg, Eligible)
        deduped   == unique_venues_by_domain_calendar(eligible)
        venues    == deduped.unique
        start_idx == Max2(1, a.start)
        end_idx   == Min2(IF a.end.none THEN Len(venues) ELSE a.end.v, Len(venues))
        ranged    == SubSeq(venues, start_idx, end_idx)
    IN  [invalid  |-> start_idx > end_idx,
         dropped  |-> deduped.duplicates,
         selected |-> IF start_idx > end_idx THEN <<>>
                      ELSE IF a.max_venues.none THEN ranged
                      ELSE SubSeq(ranged, 1, Min2(Len(ranged), Max2(0, a.max_venues.v)))]

\* the mutant: a degraded row that claims a gap of unknown size as "low"
degraded_row_low(venue, e) ==
    [domain |-> venue.domain,
     calendar_url |-> venue.calendar_url,
     source_type |-> "unknown",
     source_event_count |-> 0,
     cache_event_count |-> 0,
     coverage_ratio |-> NoneVal,
     missing_count |-> 0,
     extra_count |-> 0,
     intersection_count |-> 0,
     missing_examples |-> {},
     extra_examples |-> {},
     missing_url_count |-> 0,
     fetch_errors |-> [jina_error |-> TRUE, raw_error |-> FALSE,
                       jina_error_detail |-> e, raw_error_detail |-> NoError],
     confidence |-> "low"]

\* the row main appends in its except branch
degraded_row(venue, e) ==
    [domain |-> venue.domain,
     calendar_url |-> venue.calendar_url,
     source_type |-> "unknown",
     source_event_count |-> 0,
     cache_event_count |-> 0,
     coverage_ratio |-> NoneVal,
     missing_count |-> 0,
     extra_count |-> 0,
     intersection_count |-> 0,
     missing_examples |-> {},
     extra_examples |-> {},
     missing_url_count |-> 0,
     fetch_errors |-> [jina_error |-> TRUE, raw_error |-> TRUE,
                       jina_error_detail |-> e, raw_error_detail |-> e],
     confidence |-> "unknown"]

\* the mutant: the exception is swallowed and no row is appended
rows_after_exception_none(rs, venue, e) == rs

\* try: rows.append(audit_venue(...)) except Exception as e: rows.append({...})
rows_after_exception(rs, venue, e) == Append(rs, degraded_row(venue, e))

\* the exception audit_venue raises after its fetches, NoError when it returns
audit_exception(venue, venues) ==
    IF CacheRaises(get_cache_venue(venues, venue.domain).events)
    THEN "'str' object has no attribute 'get'"
    ELSE NoError

\* the order of the domain strings of the model
DomainRank(domain) ==
    CASE domain = <<>> -> 0
      [] domain = <<"club", "org">> -> 1
      [] domain = <<"venue", "org">> -> 2
      [] OTHER -> 3

\* coverage_ratio if it is not None, else 1.0
SortCoverage(r) == IF r.coverage_ratio.none THEN 10000 ELSE r.coverage_ratio.v

\* the mutant: null coverage sorts as 0.0 (worst), not as 1.0
RowBefore_null_worst(a, b) ==
    LET cov(r) == IF r.coverage_ratio.none THEN 0 ELSE r.coverage_ratio.v
        ka == <<0 - a.missing_count, cov(a), 0 - a.source_event_count, DomainRank(a.domain)>>
        kb == <<0 - b.missing_count, cov(b), 0 - b.source_event_count, DomainRank(b.domain)>>
    IN  \E i \in 1..4 : ka[i] < kb[i] /\ \A j \in 1..(i - 1) : ka[j] = kb[j]

\* the sort key of main, compared as Python compares tuples
RowBefore(a, b) ==
    LET ka == <<0 - a.missing_count, SortCoverage(a), 0 - a.source_event_count,
                DomainRank(a.domain)>>
        kb == <<0 - b.missing_count, SortCoverage(b), 0 - b.source_event_count,
                DomainRank(b.domain)>>
    IN  \E i \in 1..4 : ka[i] < kb[i] /\ \A j \in 1..(i - 1) : ka[j] = kb[j]

\* list.sort is stable: a row goes behind the rows it is not before
RECURSIVE InsertRow(_, _)
InsertRow(sorted, r) ==
    IF sorted = <<>> THEN <<r>>
    ELSE IF RowBefore(r, Head(sorted)) THEN <<r>> \o sorted
    ELSE <<Head(sorted)>> \o InsertRow(Tail(sorted), r)

RECURSIVE sort_rows(_)
sort_rows(rs) ==
    IF rs = <<>> THEN <<>>
    ELSE InsertRow(sort_rows(SubSeq(rs, 1, Len(rs) - 1)), rs[Len(rs)])

Count(rs, P(_)) == Cardinality({i \in 1..Len(rs) : P(rs[i])})

\* the mutant: the bucket tests are independent ifs without lower limits
summarize_overlapping_buckets(rs) ==
    LET with_source == SelectSeq(rs, LAMBDA r : r.source_event_count > 0)
        cov(r) == IF r.coverage_ratio.none THEN 0 ELSE r.coverage_ratio.v
    IN  [total_venues_checked |-> Len(rs),
         venues_with_gaps_count |-> Count(rs, LAMBDA r : r.missing_count > 0),
         rows_with_source_count |-> Len(with_source),
         rows_without_source_count |-> Count(rs, LAMBDA r : r.source_event_count = 0),
         coverage_distribution_with_source |->
           [zero |-> Count(with_source, LAMBDA r : cov(r) = 0),
            one_to_25 |-> Count(with_source, LAMBDA r : cov(r) <= 2500),
            twenty6_to_50 |-> Count(with_source, LAMBDA r : cov(r) > 2500 /\ cov(r) <= 5000),
            fifty1_to_75 |-> Count(with_source, LAMBDA r : cov(r) > 5000 /\ cov(r) <= 7500),
            seventy6_to_99 |-> Count(with_source, LAMBDA r : cov(r) > 7500 /\ cov(r) < 10000),
            hundred |-> Count(with_source, LAMBDA r : cov(r) >= 10000)],
         fetch_error_count |->
           Count(rs, LAMBDA r : r.fetch_errors.jina_error \/ r.fetch_errors.raw_error),
         high_confidence_gap_count |->
           Count(rs, LAMBDA r : r.confidence = "high" /\ r.missing_count > 0)]

summarize(rs) ==
    LET with_source == SelectSeq(rs, LAMBDA r : r.source_event_count > 0)
        cov(r) == IF r.coverage_ratio.none THEN 0 ELSE r.coverage_ratio.v
    IN  [total_venues_checked |-> Len(rs),
         venues_with_gaps_count |-> Count(rs, LAMBDA r : r.missing_count > 0),
         rows_with_source_count |-> Len(with_source),
         rows_without_source_count |-> Count(rs, LAMBDA r : r.source_event_count = 0),
         coverage_distribution_with_source |->
           [zero |-> Count(with_source, LAMBDA r : cov(r) = 0),
            one_to_25 |-> Count(with_source, LAMBDA r : cov(r) > 0 /\ cov(r) <= 2500),
            twenty6_to_50 |-> Count(with_source, LAMBDA r : cov(r) > 2500 /\ cov(r) <= 5000),
            fifty1_to_75 |-> Count(with_source, LAMBDA r : cov(r) > 5000 /\ cov(r) <= 7500),
            seventy6_to_99 |-> Count(with_source, LAMBDA r : cov(r) > 7500 /\ cov(r) < 10000),
            hundred |-> Count(with_source, LAMBDA r : cov(r) >= 10000)],
         fetch_error_count |->
           Count(rs, LAMBDA r : r.fetch_errors.jina_error \/ r.fetch_errors.raw_error),
         high_confidence_gap_count |->
           Count(rs, LAMBDA r : r.confidence = "high" /\ r.missing_count > 0)]

NotWritten == [written |-> FALSE]

(***************************************************************************)
(* Input pools.                                                            *)
(***************************************************************************)
SeqsUpTo(S, n) == UNION {[1..k -> S] : k \in 0..n}

VenueOrg == <<"venue", "org">>

HostPool ==
    {VenueOrg, <<"www", "venue", "org">>, <<"www", "www", "venue", "org">>,
     <<"WWW", "Venue", "org">>, <<"tix", "venue", "org">>, <<"tix", "com">>}

\* "", "/", "/e", "//", "/e/", ...
PathPool == {p \in SeqsUpTo({"/", "e"}, MaxPathLen) : p = <<>> \/ p[1] = "/"}

AbsUrlPool ==
    {Url(s, h, po, pa, q) : s \in {"http", "https", "HTTPS"}, h \in HostPool,
                            po \in {0, 8080}, pa \in PathPool, q \in {"", "utm=1"}}

\* https://venue.org/events
CalendarUrl == Url("https", VenueOrg, 0, <<"/", "events">>, "")

TitlePool ==
    {<<>>, <<"J", "a", "z", "z">>, <<"j", "a", "z", "z">>, <<"J", "a", "z", "z", "!">>,
     <<" ", "b", "i", "g", " ", " ", "N", "i", "g", "h", "t">>,
     <<" ", "b", "i", "g", " ", "!", " ", "n", "i", "g", "h", "t">>}

DatePool ==
    {NoDate, EmptyDate, IsoDate(1, "T19:00:00"), IsoDate(2, ""), CompactDate(1, ""),
     CompactDate(1, "T190000Z"), TextDate("Sept 1")}

TJazz == <<"J", "a", "z", "z">>

\* https://venue.org/events/jazz
UJazz == Url("https", VenueOrg, 0, <<"/", "events", "/", "jazz">>, "")

\* HTTPS://www.venue.org/events/jazz/?utm=1
UJazzVariant ==
    Url("HTTPS", <<"www", "venue", "org">>, 0, <<"/", "events", "/", "jazz", "/">>, "utm=1")

\* https://www.www.venue.org/events/jazz
UJazzWww2 ==
    Url("https", <<"www", "www", "venue", "org">>, 0, <<"/", "events", "/", "jazz">>, "")

\* https://tix.com/events/jazz
UTix == Url("https", <<"tix", "com">>, 0, <<"/", "events", "/", "jazz">>, "")

\* https://venue.org/events/blues
UBlues == Url("https", VenueOrg, 0, <<"/", "events", "/", "blues">>, "")

\* https://venue.org/about
UAbout == Url("https", VenueOrg, 0, <<"/", "about">>, "")

\* event URL strings: absent, mailto:, absolute, //host/path and /path
EventUrlPool ==
    {NoUrl, [form |-> "mailto"], UJazz, UJazzVariant, UJazzWww2, UTix,
     Url("ftp", VenueOrg, 0, <<"/", "events", "/", "jazz">>, ""),
     [form |-> "protorel", host |-> VenueOrg, port |-> 0,
      path |-> <<"/", "events", "/", "blues">>, query |-> ""],
     [form |-> "abspath", path |-> <<"/", "events", "/", "/", "blues">>, query |-> "x=1"]}

BlockPool ==
    {<<Line("SUMMARY", TJazz), Line("DTSTART", CompactDate(1, "")), Line("URL", UJazz)>>,
     <<Line("SUMMARY", TJazz), Line("DTSTART", CompactDate(1, "T190000Z")), Line("URL", UTix)>>,
     <<Line("URL", UJazzWww2), Line("SUMMARY", <<"b", "i", "g", " ", "N", "i", "g", "h", "t">>)>>,
     <<Line("STATUS", "CANCELLED"), Line("SUMMARY", <<"J", "a", "z", "z", "!">>),
       Line("URL", UBlues)>>}

HrefPool == {UJazzVariant, UJazzWww2, UTix, UAbout}

CacheEventPool ==
    {CachedEvent(UJazz, <<"O", "t", "h", "e", "r">>, IsoDate(2, "")),
     CachedEvent(NoUrl, TJazz, IsoDate(1, "T19:00:00")),
     CachedEvent(UTix, TJazz, CompactDate(1, "")),
     CachedEvent(UJazzWww2, <<>>, NoDate)}

\* https://venue.org/events.ics
IcsCalendarUrl == Url("https", VenueOrg, 0, <<"/", "events.ics">>, "")

VHtml == Venue(VenueOrg, CalendarUrl)

VIcs == Venue(<<"www", "venue", "org">>, IcsCalendarUrl)

MdPage == MdBody(<<MdLink(TJazz, UJazz), MdBare(UBlues)>>)

JinaResults == {FetchFailed("HTTP 500"), FetchOk(EmptyBody), FetchOk(MdPage)}

RawResultsAudit ==
    {FetchFailed("URL error"), FetchOk(EmptyBody)}
    \cup {FetchOk(IcsBody(b)) : b \in SeqsUpTo(BlockPool, MaxFeedItems)}
    \cup {FetchOk(HtmlBody(h)) : h \in SeqsUpTo(HrefPool, MaxFeedItems)}

VHtmlDup == Venue(<<"www", "venue", "org">>, Url("https", VenueOrg, 0, <<"/", "events", "/">>, ""))

VOpaque == Venue(<<"club", "org">>, OpaqueUrl)

VIneligible == Venue(<<"club", "org">>, NoUrl)

VenuePool == {VHtml, VHtmlDup, VIcs, VOpaque, VIneligible}

\* the parsed command line; the four paths are file names
Args(start, end, max_venues) ==
    [registry |-> "venue-registry.json", cache |-> "venue-events-cache.json",
     output_json |-> "scrape-audit.json", output_md |-> "scrape-audit.md",
     registry_exists |-> TRUE, cache_exists |-> TRUE,
     start |-> start, end |-> end, max_venues |-> max_venues]

DefaultArgs == Args(1, NoneVal, NoneVal)

OtherArgs ==
    {Args(2, NoneVal, NoneVal), Args(0, Some(1), NoneVal), Args(1, NoneVal, Some(1)),
     Args(1, Some(MaxVenues + 1), Some(0))}

\* --output-json or --output-md naming one of the two input files
SharedPathArgs ==
    {[DefaultArgs EXCEPT !.output_json = DefaultArgs.registry],
     [DefaultArgs EXCEPT !.output_md = DefaultArgs.cache]}

MissingFileArgs ==
    {[DefaultArgs EXCEPT !.registry_exists = FALSE],
     [DefaultArgs EXCEPT !.cache_exists = FALSE]}

MainCaches ==
    {<<>>,
     <<[key |-> <<"www", "venue", "org">>,
        entry |-> [events |-> <<CachedEvent(UJazz, <<"O", "t", "h", "e", "r">>, IsoDate(2, "")),
                                CachedEvent(NoUrl, TJazz, IsoDate(1, "T19:00:00"))>>]]>>,
     <<[key |-> VenueOrg,
        entry |-> [events |-> <<CachedEvent(UJazz, TJazz, NoDate), BadEvent>>]]>>}

MainJinaResults == {FetchFailed("HTTP 500"), FetchOk(MdPage)}

IcsFeed ==
    IcsBody(<<
      <<Line("SUMMARY", TJazz), Line("DTSTART", CompactDate(1, "")), Line("URL", UJazz)>>,
      <<Line("STATUS", "CANCELLED"), Line("SUMMARY", <<"J", "a", "z", "z", "!">>),
        Line("URL", UBlues)>> >>)

\* https://venue.org/events/swing
USwing == Url("https", VenueOrg, 0, <<"/", "events", "/", "swing">>, "")

MainRawResults ==
    {FetchFailed("URL error: timed out"), FetchOk(IcsFeed),
     FetchOk(HtmlBody(<<UJazzVariant, UAbout>>)),
     FetchOk(HtmlBody(<<UJazzVariant, USwing>>))}

(***************************************************************************)
(* main, one step at a time: the input checks and the selection, the two   *)
(* fetches of a venue, the rest of audit_venue and the append of the row,  *)
(* the sort and the summary, the two writes.                               *)
(***************************************************************************)
Init ==
    /\ pc = "start"
    /\ \/ args = DefaultArgs /\ registry \in SeqsUpTo(VenuePool, MaxVenues)
                             /\ cache \in MainCaches
       \/ args \in OtherArgs \cup SharedPathArgs
          /\ registry \in SeqsUpTo(VenuePool, MaxVenues)
          /\ cache = <<>>
       \/ args \in MissingFileArgs /\ registry = <<>> /\ cache = <<>>
    /\ selected = <<>>
    /\ dropped_dupes = 0
    /\ idx = 0
    /\ fetched = <<>>
    /\ rows = <<>>
    /\ net = <<>>
    /\ out_json = NotWritten
    /\ out_md = NotWritten
    /\ exit_code = -1
    /\ FnIdle

\* after the row of venue idx: the next venue, or the sort
AfterVenue == IF idx = Len(selected) THEN "sort" ELSE "fetch_jina"

CheckInputs ==
    /\ pc = "start"
    /\ LET sel == select_venues(args, registry)
       IN  IF ~args.registry_exists \/ ~args.cache_exists \/ sel.invalid
           THEN /\ pc' = "exit"
                /\ exit_code' = 1
                /\ UNCHANGED <<selected, dropped_dupes, idx>>
           ELSE /\ selected' = sel.selected
                /\ dropped_dupes' = sel.dropped
                /\ idx' = 1
                /\ pc' = IF sel.selected = <<>> THEN "sort" ELSE "fetch_jina"
                /\ UNCHANGED exit_code
    /\ UNCHANGED <<args, registry, cache, fetched, rows, net, out_json, out_md, fnVars>>

\* fetch_source: the reader-proxy fetch
FetchJina ==
    /\ pc = "fetch_jina"
    /\ \E r \in MainJinaResults : fetched' = [jina |-> r]
    /\ net' = Append(net, [path |-> "jina", venue |-> idx])
    /\ pc' = "fetch_raw"
    /\ UNCHANGED <<args, registry, cache, selected, dropped_dupes, idx, rows,
                   out_json, out_md, exit_code, fnVars>>

\* fetch_source: the fetch of the calendar URL; urllib's Request raises
\* ValueError, outside the try of fetch_text, for a URL without a scheme
FetchRaw ==
    /\ pc = "fetch_raw"
    /\ IF selected[idx].calendar_url.form = "opaque"
       THEN /\ rows' = rows_after_exception(rows, selected[idx], "unknown url type")
            /\ idx' = idx + 1
            /\ pc' = AfterVenue
            /\ fetched' = <<>>
            /\ UNCHANGED net
       ELSE /\ \E r \in MainRawResults : fetched' = [jina |-> fetched.jina, raw |-> r]
            /\ net' = Append(net, [path |-> "raw", venue |-> idx])
            /\ pc' = "audit"
            /\ UNCHANGED <<rows, idx>>
    /\ UNCHANGED <<args, registry, cache, selected, dropped_dupes,
                   out_json, out_md, exit_code, fnVars>>

\* the rest of audit_venue, and the append of its row or of the degraded row
AuditVenue ==
    /\ pc = "audit"
    /\ LET venue == selected[idx]
           e == audit_exception(venue, cache)
       IN  rows' = IF e # NoError
                   THEN rows_after_exception(rows, venue, e)
                   ELSE Append(rows, audit_locals(venue, cache, fetched.jina, fetched.raw).row)
    /\ idx' = idx + 1
    /\ pc' = AfterVenue
    /\ fetched' = <<>>
    /\ UNCHANGED <<args, registry, cache, selected, dropped_dupes, net,
                   out_json, out_md, exit_code, fnVars>>

SortRows ==
    /\ pc = "sort"
    /\ rows' = sort_rows(rows)
    /\ pc' = "write_json"
    /\ UNCHANGED <<args, registry, cache, selected, dropped_dupes, idx, fetched, net,
                   out_json, out_md, exit_code, fnVars>>

\* the mutant: the rows collected so far are also flushed inside the loop
WriteJson_inside_loop ==
    /\ pc \in {"write_json", "fetch_jina"}
    /\ out_json' = [written |-> TRUE,
                    dedupe |-> [dropped_duplicate_registry_rows |-> dropped_dupes],
                    summary |-> summarize(rows),
                    rows |-> rows]
    /\ pc' = IF pc = "write_json" THEN "write_md" ELSE pc
    /\ UNCHANGED <<args, registry, cache, selected, dropped_dupes, idx, fetched, rows, net,
                   out_md, exit_code, fnVars>>

WriteJson ==
    /\ pc = "write_json"
    /\ out_json' = [written |-> TRUE,
                    dedupe |-> [dropped_duplicate_registry_rows |-> dropped_dupes],
                    summary |-> summarize(rows),
                    rows |-> rows]
    /\ pc' = "write_md"
    /\ UNCHANGED <<args, registry, cache, selected, dropped_dupes, idx, fetched, rows, net,
                   out_md, exit_code, fnVars>>

WriteMarkdown ==
    /\ pc = "write_md"
    /\ out_md' = [written |-> TRUE,
                  gaps |-> SelectSeq(rows, LAMBDA r : r.missing_count > 0)]
    /\ pc' = "done"
    /\ exit_code' = 0
    /\ UNCHANGED <<args, registry, cache, selected, dropped_dupes, idx, fetched, rows, net,
                   out_json, fnVars>>

\* the content of the file at a path: what write_text or write_json wrote
\* there last, else what the run found there
FileAt(path) ==
    IF out_md.written /\ args.output_md = path THEN [kind |-> "markdown", content |-> out_md]
    ELSE IF out_json.written /\ args.output_json = path
         THEN [kind |-> "report", content |-> out_json]
    ELSE IF path = args.registry /\ args.registry_exists
         THEN [kind |-> "registry", content |-> registry]
    ELSE IF path = args.cache /\ args.cache_exists
         THEN [kind |-> "cache", content |-> cache]
    ELSE [kind |-> "absent"]

Next ==
    \/ CheckInputs
    \/ FetchJina
    \/ FetchRaw
    \/ AuditVenue
    \/ SortRows
    \/ WriteJson
    \/ WriteMarkdown

Spec == Init /\ [][Next]_vars

(***************************************************************************)
(* Specifications of the pure functions: Init draws the input, the action  *)
(* applies the function.                                                   *)
(***************************************************************************)
\* canonicalize_url applied to an absolute URL, then to its own result
InitCanon ==
    /\ MainIdle
    /\ fin \in AbsUrlPool
    /\ fout = <<>>
    /\ fpc = "in"

CanonOnce ==
    /\ fpc = "in"
    /\ fout' = <<canonicalize_url(fin, NoUrl)>>
    /\ fpc' = "once"
    /\ UNCHANGED <<fin, mainVars>>

CanonTwice ==
    /\ fpc = "once"
    /\ fout[1] # NoUrl
    /\ fout' = Append(fout, canonicalize_url(fout[1], NoUrl))
    /\ fpc' = "twice"
    /\ UNCHANGED <<fin, mainVars>>

NextCanon == CanonOnce \/ CanonTwice

SpecCanon == InitCanon /\ [][NextCanon]_vars

\* make_event_key applied to one URL with two titles and two dates
InitKey ==
    /\ MainIdle
    /\ fin \in [url : EventUrlPool, base : {CalendarUrl},
                t1 : TitlePool, t2 : TitlePool, d1 : DatePool, d2 : DatePool]
    /\ fout = <<>>
    /\ fpc = "in"

ApplyKey ==
    /\ fpc = "in"
    /\ fout' = <<make_event_key(fin.url, fin.t1, fin.d1, fin.base),
                 make_event_key(fin.url, fin.t2, fin.d2, fin.base)>>
    /\ fpc' = "done"
    /\ UNCHANGED <<fin, mainVars>>

NextKey == ApplyKey

SpecKey == InitKey /\ [][NextKey]_vars

\* classify_confidence applied to any combination of counts
InitConfidence ==
    /\ MainIdle
    /\ fin \in [source_event_count : 0..MaxCount, missing_count : 0..MaxCount,
                fetch_error : BOOLEAN, cache_event_count : 0..MaxCount,
                missing_url_count : 0..MaxCount]
    /\ fout = <<>>
    /\ fpc = "in"

ApplyConfidence ==
    /\ fpc = "in"
    /\ fout' = classify_confidence(fin.source_event_count, fin.missing_count,
                                   fin.fetch_error, fin.cache_event_count,
                                   fin.missing_url_count)
    /\ fpc' = "done"
    /\ UNCHANGED <<fin, mainVars>>

NextConfidence == ApplyConfidence

SpecConfidence == InitConfidence /\ [][NextConfidence]_vars

\* audit_venue applied to one venue, its two fetch results and its cache entry
InitAudit ==
    /\ MainIdle
    /\ fin \in [venue : {VHtml, VIcs},
                venues : {<<[key |-> VenueOrg, entry |-> [events |-> evs]]>> :
                            evs \in SeqsUpTo(CacheEventPool, MaxCacheEvents)},
                jina : JinaResults,
                raw : RawResultsAudit]
    /\ fout = <<>>
    /\ fpc = "in"

ApplyAudit ==
    /\ fpc = "in"
    /\ fout' = audit_locals(fin.venue, fin.venues, fin.jina, fin.raw)
    /\ fpc' = "done"
    /\ UNCHANGED <<fin, mainVars>>

NextAudit == ApplyAudit

SpecAudit == InitAudit /\ [][NextAudit]_vars

\* parse_ics_events applied to a feed whose first VEVENT block is any sequence
\* of at most MaxBlockLines field lines
MaxBlockLines == 3

IcsLinePool ==
    {Line("STATUS", "CANCELLED"), Line("STATUS", "CONFIRMED"), Line("SUMMARY", TJazz),
     Line("DTSTART", CompactDate(1, "")), Line("URL", UJazz), Line("URL", UTix)}

InitIcs ==
    /\ MainIdle
    /\ fin \in [text : {IcsBody(<<b>> \o rest) :
                           b \in SeqsUpTo(IcsLinePool, MaxBlockLines),
                           rest \in SeqsUpTo(BlockPool, MaxFeedItems - 1)},
                calendar_url : {IcsCalendarUrl},
                domain : {VenueOrg}]
    /\ fout = <<>>
    /\ fpc = "in"

ApplyIcs ==
    /\ fpc = "in"
    /\ fout' = parse_ics_events(fin.text, fin.calendar_url, fin.domain)
    /\ fpc' = "done"
    /\ UNCHANGED <<fin, mainVars>>

NextIcs == ApplyIcs

SpecIcs == InitIcs /\ [][NextIcs]_vars

\* likely_event_url applied to a URL of venue.org whose path has at most
\* MaxSegments segments, with or without a trailing slash
MaxSegments == 3

SegmentPool ==
    {"events", "Events", "event", "category", "jazz", "page", "1", "2025-09-01",
     "feed", "feedback", "api", "v1", "search", "tickets"}

RECURSIVE PathOf(_)
PathOf(segs) == IF segs = <<>> THEN <<>> ELSE <<"/", Head(segs)>> \o PathOf(Tail(segs))

LikelyPathPool ==
    {PathOf(segs) \o tail : segs \in SeqsUpTo(SegmentPool, MaxSegments),
                            tail \in {<<>>, <<"/">>}}

InitLikely ==
    /\ MainIdle
    /\ fin \in [url : {Url("https", VenueOrg, 0, pa, "") : pa \in LikelyPathPool}]
    /\ fout = <<>>
    /\ fpc = "in"

ApplyLikely ==
    /\ fpc = "in"
    /\ fout' = [result |-> likely_event_url(fin.url)]
    /\ fpc' = "done"
    /\ UNCHANGED <<fin, mainVars>>

NextLikely == ApplyLikely

SpecLikely == InitLikely /\ [][NextLikely]_vars

\* unique_venues_by_domain_calendar applied to a list of eligible venues
DedupeVenuePool ==
    {Venue(d, Url("https", VenueOrg, 0, pa, "")) :
       d \in {VenueOrg, <<"www", "venue", "org">>, <<"WWW", "Venue", "org">>,
              <<"www", "www", "venue", "org">>, <<"club", "org">>},
       pa \in {<<"/", "events">>, <<"/", "events", "/">>, <<"/", "events.ics">>}}

InitDedupe ==
    /\ MainIdle
    /\ fin \in [venues : SeqsUpTo(DedupeVenuePool, MaxVenues)]
    /\ fout = <<>>
    /\ fpc = "in"

ApplyDedupe ==
    /\ fpc = "in"
    /\ fout' = unique_venues_by_domain_calendar(fin.venues)
    /\ fpc' = "done"
    /\ UNCHANGED <<fin, mainVars>>

NextDedupe == ApplyDedupe

SpecDedupe == InitDedupe /\ [][NextDedupe]_vars

\* audit_venue applied to a venue with an .ics calendar URL: the raw fetch
\* returns a feed; the reader fetch returns the same feed, an empty body, a
\* rendered page, or fails
VIcsBare == Venue(VenueOrg, IcsCalendarUrl)

\* a VEVENT with a date only
UntitledBlock == <<Line("DTSTART", CompactDate(1, ""))>>

IcsVenueFeeds == SeqsUpTo(BlockPool \cup {UntitledBlock}, MaxFeedItems)

IcsVenueCaches ==
    {<<>>,
     <<[key |-> VenueOrg, entry |-> [events |-> <<>>]]>>,
     <<[key |-> <<"club", "org">>,
        entry |-> [events |-> <<CachedEvent(UJazz, TJazz, IsoDate(1, ""))>>]]>>,
     <<[key |-> <<"WWW", "Venue", "org">>,
        entry |-> [events |-> <<CachedEvent(UJazz, TJazz, IsoDate(1, ""))>>]]>>}

\* what the reader fetch returns for a calendar URL that serves the feed f
JinaResultsFor(f) ==
    {FetchOk(IcsBody(f)), FetchOk(EmptyBody), FetchOk(MdPage), FetchFailed("HTTP 500")}

InitIcsVenue ==
    /\ MainIdle
    /\ fin \in UNION {{[venue |-> v, venues |-> c, jina |-> j, raw |-> FetchOk(IcsBody(f))] :
                         v \in {VIcsBare, VIcs}, c \in IcsVenueCaches,
                         j \in JinaResultsFor(f)} : f \in IcsVenueFeeds}
    /\ fout = <<>>
    /\ fpc = "in"

ApplyIcsVenue ==
    /\ fpc = "in"
    /\ fout' = audit_locals(fin.venue, fin.venues, fin.jina, fin.raw)
    /\ fpc' = "done"
    /\ UNCHANGED <<fin, mainVars>>

NextIcsVenue == ApplyIcsVenue

SpecIcsVenue == InitIcsVenue /\ [][NextIcsVenue]_vars

\* summarize applied to a list of rows with any counts up to MaxSourceEvents
MaxSourceEvents == 4

SummaryRow(source_count, intersection_count, fetch_error) ==
    [source_event_count |-> source_count,
     intersection_count |-> intersection_count,
     missing_count |-> source_count - intersection_count,
     coverage_ratio |-> coverage_ratio(intersection_count, source_count),
     fetch_errors |-> [jina_error |-> fetch_error, raw_error |-> FALSE],
     confidence |-> classify_confidence(source_count, source_count - intersection_count,
                                        fetch_error, 0, 0)]

SummaryRowPool ==
    UNION {{SummaryRow(sc, ic, fe) : ic \in 0..sc, fe \in BOOLEAN} :
             sc \in 0..MaxSourceEvents}

InitSummary ==
    /\ MainIdle
    /\ fin \in [summary_rows : SeqsUpTo(SummaryRowPool, MaxVenues)]
    /\ fout = <<>>
    /\ fpc = "in"

ApplySummary ==
    /\ fpc = "in"
    /\ fout' = summarize(fin.summary_rows)
    /\ fpc' = "done"
    /\ UNCHANGED <<fin, mainVars>>

NextSummary == ApplySummary

SpecSummary == InitSummary /\ [][NextSummary]_vars

(***************************************************************************)
(* Claims.                                                                 *)
(***************************************************************************)

RowCountsAgree(r) ==
    /\ r.missing_count + r.intersection_count = r.source_event_count
    /\ r.extra_count + r.intersection_count = r.cache_event_count

IsDegraded(r) == r.source_type = "unknown"

\* C1: every row, built by audit_venue or by the except branch of main, has
\* missing_count + intersection_count = source_event_count and
\* extra_count + intersection_count = cache_event_count.
C1_RowCountInvariant ==
    /\ \A i \in 1..Len(rows) : RowCountsAgree(rows[i])
    /\ out_json.written => \A i \in 1..Len(out_json.rows) : RowCountsAgree(out_json.rows[i])

\* a report with a degraded row and a row with missing, extra and common keys
C1_Witness ==
    /\ out_json.written
    /\ \E i \in 1..Len(out_json.rows) : IsDegraded(out_json.rows[i])
    /\ \E i \in 1..Len(out_json.rows) :
         /\ out_json.rows[i].missing_count > 0
         /\ out_json.rows[i].extra_count > 0
         /\ out_json.rows[i].intersection_count > 0

InLoop == pc \in {"fetch_jina", "fetch_raw", "audit"}

\* C2: once the input checks have passed the venue loop never aborts: every
\* selected venue contributes exactly one row, in order, whatever fails, and
\* the run ends with both report files written.
C2_OneRowPerVenue ==
    /\ InLoop => /\ idx \in 1..Len(selected)
                 /\ Len(rows) = idx - 1
    /\ (InLoop \/ pc = "sort") =>
         \A i \in 1..Len(rows) : rows[i].calendar_url = selected[i].calendar_url
    /\ pc \in {"sort", "write_json", "write_md", "done"} => Len(rows) = Len(selected)
    /\ pc = "done" => /\ out_json.written
                      /\ out_md.written
                      /\ Len(out_json.rows) = Len(selected)
                      /\ exit_code = 0
    /\ pc \in {"fetch_raw", "audit"} => fetched.jina \in MainJinaResults
    /\ pc = "exit" => /\ exit_code = 1
                      /\ rows = <<>>
                      /\ (~args.registry_exists \/ ~args.cache_exists
                          \/ select_venues(args, registry).invalid)

\* a finished run of two venues, one that raised and one whose fetches failed
C2_Witness ==
    /\ pc = "done"
    /\ Len(selected) = 2
    /\ \E i \in 1..2 : IsDegraded(out_json.rows[i])
    /\ \E i \in 1..2 : /\ ~IsDegraded(out_json.rows[i])
                       /\ out_json.rows[i].fetch_errors.jina_error
                       /\ out_json.rows[i].fetch_errors.raw_error

\* C3: when both fetches of a venue fail, its row has source_event_count = 0,
\* coverage_ratio null, both fetch-error flags set and confidence "unknown".
C3_BothFetchesFailed ==
    \A i \in 1..Len(rows) :
      (/\ ~IsDegraded(rows[i])
       /\ rows[i].fetch_errors.jina_error
       /\ rows[i].fetch_errors.raw_error) =>
        /\ rows[i].source_event_count = 0
        /\ rows[i].coverage_ratio = NoneVal
        /\ rows[i].confidence = "unknown"

\* the exception the audit of a venue ends with, NoError when it returns
VenueException(venue) ==
    IF venue.calendar_url.form = "opaque" THEN "unknown url type"
    ELSE audit_exception(venue, cache)

\* C4: when audit_venue raises for a venue, main appends a row for it with all
\* counts 0, coverage_ratio null, both fetch-error flags set, the exception
\* text in both detail fields and confidence "unknown", and goes on.
C4_DegradedRowOnException ==
    (InLoop \/ pc = "sort") =>
      /\ Len(rows) = idx - 1
      /\ \A i \in 1..Len(rows) :
           LET e == VenueException(selected[i])
               r == rows[i]
           IN  e # NoError =>
                 /\ r.domain = selected[i].domain
                 /\ r.source_event_count = 0 /\ r.cache_event_count = 0
                 /\ r.missing_count = 0 /\ r.extra_count = 0
                 /\ r.intersection_count = 0
                 /\ r.coverage_ratio = NoneVal
                 /\ r.fetch_errors = [jina_error |-> TRUE, raw_error |-> TRUE,
                                      jina_error_detail |-> e, raw_error_detail |-> e]
                 /\ r.confidence = "unknown"

\* the loop has gone on to the second venue after the first one raised
C4_Witness ==
    /\ pc = "fetch_raw"
    /\ idx = 2
    /\ VenueException(selected[1]) = "'str' object has no attribute 'get'"
    /\ rows[1].confidence = "unknown"

\* C5: classify_confidence returns the label of the first rule that matches,
\* in the order: no gap -> "none"; no source event -> "unknown"; a fetch error
\* -> "low"; a non-empty cache whose events all lack a URL -> "medium";
\* otherwise "high".
C5_FirstMatchingRule ==
    fpc = "done" =>
      LET noGap    == fin.missing_count = 0
          noSource == fin.source_event_count = 0
          weakKeys == fin.cache_event_count > 0
                      /\ fin.missing_url_count = fin.cache_event_count
      IN  /\ noGap => fout = "none"
          /\ (~noGap /\ noSource) => fout = "unknown"
          /\ (~noGap /\ ~noSource /\ fin.fetch_error) => fout = "low"
          /\ (~noGap /\ ~noSource /\ ~fin.fetch_error /\ weakKeys) => fout = "medium"
          /\ (~noGap /\ ~noSource /\ ~fin.fetch_error /\ ~weakKeys) => fout = "high"

\* a call where the first three rules all match, and the first one decides
C5_Witness ==
    /\ fpc = "done"
    /\ fin.missing_count = 0
    /\ fin.source_event_count = 0
    /\ fin.fetch_error
    /\ fout = "none"

\* C7: canonicalize_url is idempotent on absolute http(s) URLs: a non-null
\* result canonicalizes to itself.
C7_Idempotent == fpc = "twice" => fout[2] = fout[1]

\* C8: when the event URL canonicalizes to a non-null URL, make_event_key
\* returns "url::" + that URL whatever title and date come with it.
C8_KeyDependsOnUrlOnly ==
    (fpc = "done" /\ canonicalize_url(fin.url, fin.base) # NoUrl) =>
      /\ fout[1] = UrlKey(canonicalize_url(fin.url, fin.base))
      /\ fout[2] = fout[1]

\* two calls with the same resolvable URL, different titles and different dates
C8_Witness ==
    /\ fpc = "done"
    /\ canonicalize_url(fin.url, fin.base) # NoUrl
    /\ fin.t1 # <<>>
    /\ fin.t2 = <<>>
    /\ fin.d1 # fin.d2
    /\ fout[1].kind = "url"

\* C6: for a row with a gap, with source events and without fetch error, the
\* confidence is "medium" exactly when the cache holds at least one event and
\* every cached event lacks a URL after canonicalization, and "high" otherwise.
C6_MediumIffAllCachedLackUrl ==
    (/\ fpc = "done"
     /\ fout.row.missing_count > 0
     /\ fout.row.source_event_count > 0
     /\ ~fout.row.fetch_errors.jina_error
     /\ ~fout.row.fetch_errors.raw_error) =>
      LET cached  == fout.cache_raw_events
          allLack == /\ Len(cached) >= 1
                     /\ \A i \in 1..Len(cached) :
                          canonicalize_url(cached[i].eventUrl, fin.venue.calendar_url) = NoUrl
      IN  fout.row.confidence = IF allLack THEN "medium" ELSE "high"

\* the URLs carried by the source items that yield an event: the URL lines of
\* the kept VEVENT blocks, or the link candidates the HTML extractor accepts
SourceCarriedUrls ==
    LET cal == fin.venue.calendar_url
        dom == fin.venue.domain
        ics == IF fin.jina.text # EmptyBody THEN fin.jina.text ELSE fin.raw.text
        blocks == IF ics.kind = "ics" THEN ics.blocks ELSE <<>>
        cands == html_candidates(fin.raw.text, fin.jina.text)
    IN  IF fout.row.source_type = "ICS"
        THEN {FieldOf(blocks[i], "URL", NoUrl) :
                i \in {j \in 1..Len(blocks) :
                         /\ Upper(FieldOf(blocks[j], "STATUS", "")) # "CANCELLED"
                         /\ FieldOf(blocks[j], "SUMMARY", <<>>) # <<>>}}
        ELSE {cands[i].url :
                i \in {j \in 1..Len(cands) :
                         LET c == canonicalize_url(cands[j].url, cal)
                         IN  c # NoUrl /\ is_same_site(c, dom) /\ likely_event_url(c)}}

\* C9: a source event and a cached event whose URLs have the same canonical
\* form get the same key: the cached event's key is a source key, so the event
\* is in the intersection and in neither missing nor extra.
C9_SameCanonicalUrlSameKey ==
    fpc = "done" =>
      \A u \in SourceCarriedUrls :
        \A i \in 1..Len(fout.cache_raw_events) :
          LET cal == fin.venue.calendar_url
              cu  == canonicalize_url(u, cal)
          IN  (cu # NoUrl /\ cu = canonicalize_url(fout.cache_raw_events[i].eventUrl, cal)) =>
                /\ fout.cache_events[i].key \in KeysOf(fout.source_events)
                /\ fout.row.intersection_count >= 1
                /\ key_to_display(fout.cache_events[i].key) \notin fout.row.extra_examples

KeyFormFollowsSameSiteUrl(e, domain) ==
    IF e.eventUrl # NoUrl /\ is_same_site(e.eventUrl, domain)
    THEN e.key.kind = "url"
    ELSE e.key = TitleKey(normalize_title_for_key(e.title),
                          normalize_date_for_key(e.startDate))

\* C10: on the source side and on the cache side, a key is of the url form
\* only when the event has a canonical URL that is same-site with the venue's
\* domain; every other event has the title/date key.
C10_UrlKeyOnlyForSameSite ==
    fpc = "done" =>
      /\ \A i \in 1..Len(fout.source_events) :
           KeyFormFollowsSameSiteUrl(fout.source_events[i], fin.venue.domain)
      /\ \A i \in 1..Len(fout.cache_events) :
           KeyFormFollowsSameSiteUrl(fout.cache_events[i], fin.venue.domain)

\* C11: two events without a URL whose titles differ only in letter case and
\* in characters outside [a-z0-9 -], and whose dates start with the same
\* YYYY-MM-DD, get the same fallback key title::<normalized title>::date::<d>.
TitleVariants(t1, t2) ==
    SelectSeq(LowerSeq(t1), IsKeyChar) = SelectSeq(LowerSeq(t2), IsKeyChar)

SameLeadingDay(d1, d2) == d1.fmt = "iso" /\ d2.fmt = "iso" /\ d1.d = d2.d

C11_VariantTitlesSameKey ==
    (/\ fpc = "done"
     /\ "t1" \in DOMAIN fin
     /\ canonicalize_url(fin.url, fin.base) = NoUrl
     /\ TitleVariants(fin.t1, fin.t2)
     /\ SameLeadingDay(fin.d1, fin.d2))
    => /\ fout[1] = fout[2]
       /\ fout[1] = TitleKey(normalize_title_for_key(fin.t1), IsoDate(fin.d1.d, ""))

\* C12: a VEVENT block that contains a STATUS:CANCELLED line contributes no
\* event to the output of parse_ics_events, whatever other lines (further
\* STATUS lines included) the block has and in whatever order: the output is
\* the output for the feed without such blocks.
HasCancelledLine(block) ==
    \E i \in 1..Len(block) : block[i] = Line("STATUS", "CANCELLED")

NotCancelledBlock(block) == ~HasCancelledLine(block)

C12_CancelledBlockYieldsNoEvent ==
    (fpc = "done" /\ "text" \in DOMAIN fin) =>
      fout = parse_ics_events(IcsBody(SelectSeq(fin.text.blocks, NotCancelledBlock)),
                              fin.calendar_url, fin.domain)

\* C13: exclusions are checked before inclusions: a URL whose path matches an
\* exclusion pattern is rejected by likely_event_url even if the path also
\* ends in a date segment or contains an inclusion substring.
C13_ExclusionsFirst ==
    (fpc = "done" /\ "url" \in DOMAIN fin /\ MatchesExclude(LowerSeq(fin.url.path)))
    => fout.result = FALSE

\* /events/category/jazz is rejected although it contains /events/
C13_Witness ==
    /\ fpc = "done"
    /\ "url" \in DOMAIN fin
    /\ fin.url.path = <<"/", "events", "/", "category", "/", "jazz">>
    /\ MatchesInclude(LowerSeq(fin.url.path))
    /\ MatchesExclude(LowerSeq(fin.url.path))
    /\ fout.result = FALSE

\* C14: likely_event_url returns false for the bare listing path, in both
\* forms /events and /events/.
C14_BareListingRejected ==
    (/\ fpc = "done"
     /\ "url" \in DOMAIN fin
     /\ fin.url.path \in {<<"/", "events">>, <<"/", "events", "/">>})
    => fout.result = FALSE

\* C15: in the written report every two adjacent rows are in the order
\* missing_count descending, then coverage_ratio ascending with null as 1.0,
\* then source_event_count descending, then domain ascending; degraded rows
\* take part in the same order.
NotAfter(a, b) ==
    LET ca == IF a.coverage_ratio.none THEN 10000 ELSE a.coverage_ratio.v
        cb == IF b.coverage_ratio.none THEN 10000 ELSE b.coverage_ratio.v
    IN  \/ a.missing_count > b.missing_count
        \/ /\ a.missing_count = b.missing_count
           /\ \/ ca < cb
              \/ /\ ca = cb
                 /\ \/ a.source_event_count > b.source_event_count
                    \/ /\ a.source_event_count = b.source_event_count
                       /\ DomainRank(a.domain) <= DomainRank(b.domain)

InReportOrder(rs) == \A i \in 1..(Len(rs) - 1) : NotAfter(rs[i], rs[i + 1])

C15_ReportRowsSorted ==
    /\ out_json.written => InReportOrder(out_json.rows)
    /\ out_md.written => InReportOrder(out_md.gaps)

\* a report of two rows in which the sort has moved a row in front of a
\* degraded row that was collected before it
C15_Witness ==
    /\ out_json.written
    /\ out_md.written
    /\ Len(out_json.rows) = 2
    /\ selected[1].domain # selected[2].domain
    /\ out_json.rows[1].domain = selected[2].domain
    /\ IsDegraded(out_json.rows[2])
    /\ out_json.rows[1].missing_count > 0

\* C16: for every row, coverage_ratio is null exactly when
\* source_event_count = 0; otherwise it is intersection_count /
\* source_event_count and lies in [0, 1].
CoverageIsQuotient(r) ==
    /\ r.coverage_ratio.none <=> r.source_event_count = 0
    /\ ~r.coverage_ratio.none =>
         /\ r.coverage_ratio.v * r.source_event_count = 10000 * r.intersection_count
         /\ r.coverage_ratio.v \in 0..10000

C16_CoverageIsQuotient == \A i \in 1..Len(rows) : CoverageIsQuotient(rows[i])

\* C16 as amended: the quotient is rounded to four decimal places (the
\* nearest ten-thousandth).
CoverageIsRoundedQuotient(r) ==
    /\ r.coverage_ratio.none <=> r.source_event_count = 0
    /\ ~r.coverage_ratio.none =>
         LET v == r.coverage_ratio.v
             s == r.source_event_count
             n == r.intersection_count
         IN  /\ 2 * (v * s - 10000 * n) <= s
             /\ 2 * (10000 * n - v * s) <= s
             /\ v \in 0..10000

C16_CoverageIsRoundedQuotient ==
    \A i \in 1..Len(rows) : CoverageIsRoundedQuotient(rows[i])

\* a report with a row of coverage 1/3 (0.3333) and a row without source
\* events
C16_Witness ==
    /\ out_json.written
    /\ \E i \in 1..Len(rows) : rows[i].source_event_count = 3
                                /\ rows[i].intersection_count = 1
                                /\ rows[i].coverage_ratio = Some(3333)
    /\ \E i \in 1..Len(rows) : rows[i].coverage_ratio = NoneVal

\* C17: unique_venues_by_domain_calendar keeps, in registry order, the first
\* venue of each identity and drops every later one; kept plus dropped is
\* the number of input venues; two rows that differ only by a trailing slash
\* on calendar_url or by a www. prefix on domain give one kept row and a
\* dropped count of 1.
FirstIndexOf(venues, v) ==
    CHOOSE i \in 1..Len(venues) :
      /\ VenueIdentity(venues[i]) = VenueIdentity(v)
      /\ \A j \in 1..(i - 1) : VenueIdentity(venues[j]) # VenueIdentity(v)

KeepsFirstOfEachIdentity(venues, result) ==
    /\ \A i \in 1..Len(venues) :
         \E k \in 1..Len(result.unique) :
           VenueIdentity(result.unique[k]) = VenueIdentity(venues[i])
    /\ \A k \in 1..Len(result.unique) :
         result.unique[k] = venues[FirstIndexOf(venues, result.unique[k])]
    /\ \A k, l \in 1..Len(result.unique) :
         k < l => FirstIndexOf(venues, result.unique[k]) < FirstIndexOf(venues, result.unique[l])
    /\ Len(result.unique) + result.duplicates = Len(venues)

DifferBySlashOrWww(a, b) ==
    \/ /\ a.domain = b.domain
       /\ b.calendar_url = [a.calendar_url EXCEPT !.path = a.calendar_url.path \o <<"/">>]
    \/ /\ a.calendar_url = b.calendar_url
       /\ b.domain = <<"www">> \o a.domain

C17_DedupeKeepsFirst ==
    (fpc = "done" /\ "venues" \in DOMAIN fin) =>
      /\ KeepsFirstOfEachIdentity(fin.venues, fout)
      /\ (/\ Len(fin.venues) = 2
          /\ \/ DifferBySlashOrWww(fin.venues[1], fin.venues[2])
             \/ DifferBySlashOrWww(fin.venues[2], fin.venues[1]))
         => (Len(fout.unique) = 1 /\ fout.duplicates = 1)

\* C18: if the registry file or the cache file is missing, or start > end
\* after clamping (start to at least 1, end to at most the number of
\* deduplicated eligible venues), main returns 1 without having issued a
\* fetch and without writing a report file; every other run that reaches the
\* end returns 0.
InputError ==
    LET n     == Len(unique_venues_by_domain_calendar(SelectSeq(registry, Eligible)).unique)
        first == IF args.start < 1 THEN 1 ELSE args.start
        last  == IF args.end.none \/ args.end.v > n THEN n ELSE args.end.v
    IN  ~args.registry_exists \/ ~args.cache_exists \/ first > last

Finished == pc \in {"exit", "done"}

C18_ExitCodes ==
    /\ InputError => /\ net = <<>>
                     /\ ~out_json.written
                     /\ ~out_md.written
                     /\ pc \in {"start", "exit"}
                     /\ Finished => exit_code = 1
    /\ ~InputError => /\ pc # "exit"
                      /\ Finished => exit_code = 0

\* a run with both files present that ended with 1 on an invalid range
C18_Witness ==
    /\ pc = "exit"
    /\ exit_code = 1
    /\ args.registry_exists
    /\ args.cache_exists
    /\ Len(registry) > 0
    /\ args.start > 1

\* C19: the report files are written only after every selected venue has
\* been processed and its row collected: no report file is written while a
\* selected venue is unprocessed, and once both are written the JSON rows
\* list contains all rows.
AllVenuesProcessed ==
    /\ idx = Len(selected) + 1
    /\ Len(rows) = Len(selected)
    /\ ~InLoop

C19_WritesAfterAllVenues ==
    /\ (out_json.written \/ out_md.written) => AllVenuesProcessed
    /\ out_md.written => out_json.written
    /\ (out_json.written /\ out_md.written) =>
         /\ out_json.rows = rows
         /\ Len(out_json.rows) = Len(selected)
         /\ \A i \in 1..Len(selected) :
              \E k \in 1..Len(out_json.rows) :
                out_json.rows[k].calendar_url = selected[i].calendar_url

\* both files written after a loop over two venues
C19_Witness ==
    /\ out_json.written
    /\ out_md.written
    /\ Len(selected) = 2
    /\ Len(out_json.rows) = 2

\* C20: a run never changes the registry or the cache, for any command
\* line: no step of main or audit_venue changes the registry file, the cache
\* file or the structures loaded from them.
C20_InputsUnchanged ==
    [][/\ registry' = registry
       /\ cache' = cache
       /\ FileAt(args.registry)' = FileAt(args.registry)
       /\ FileAt(args.cache)' = FileAt(args.cache)]_vars

\* C21: for the venue {venue.org, https://venue.org/events.ics} whose
\* fetches succeed with an ICS feed of two VEVENTs (each with a SUMMARY), one
\* of them CANCELLED, and whose cache holds no event, the row has
\* source_event_count 1, cache_event_count 0, missing_count 1,
\* coverage_ratio 0.0 and confidence "high".
HasSummary(block) == FieldOf(block, "SUMMARY", <<>>) # <<>>

ScenarioA ==
    /\ fin.venue = VIcsBare
    /\ fin.raw.error = NoError
    /\ fin.jina = fin.raw
    /\ Len(fin.raw.text.blocks) = 2
    /\ \A i \in 1..2 : HasSummary(fin.raw.text.blocks[i])
    /\ \E i, j \in 1..2 : /\ HasCancelledLine(fin.raw.text.blocks[i])
                          /\ ~HasCancelledLine(fin.raw.text.blocks[j])
    /\ get_cache_venue(fin.venues, fin.venue.domain).events = <<>>

WithoutMarkers(example) == example.kind = "bare"

C22_ExamplesWithoutMarkers ==
    (fpc = "done" /\ "venues" \in DOMAIN fin /\ "row" \in DOMAIN fout) =>
      \A example \in fout.row.missing_examples \cup fout.row.extra_examples :
        WithoutMarkers(example)

\* C23: for a venue whose domain matches no cache key, neither exactly nor
\* after host normalization, get_cache_venue returns an empty structure and
\* the row has cache_event_count = 0, extra_count = 0, intersection_count = 0
\* and missing_count = source_event_count.
NoCacheKeyMatches(venues, domain) ==
    \A i \in 1..Len(venues) :
      /\ venues[i].key # domain
      /\ normalize_host(venues[i].key) # normalize_host(domain)

C23_NoCacheEntry ==
    (fpc = "done" /\ "raw" \in DOMAIN fin /\ NoCacheKeyMatches(fin.venues, fin.venue.domain))
    => /\ get_cache_venue(fin.venues, fin.venue.domain) = NoEntry
       /\ fout.cache_raw_events = <<>>
       /\ fout.row.cache_event_count = 0
       /\ fout.row.extra_count = 0
       /\ fout.row.intersection_count = 0
       /\ fout.row.missing_count = fout.row.source_event_count

\* a cache that has events of another domain only, and a source with events
C23_Witness ==
    /\ fpc = "done"
    /\ "raw" \in DOMAIN fin
    /\ fin.venues # <<>>
    /\ NoCacheKeyMatches(fin.venues, fin.venue.domain)
    /\ fout.row.source_event_count = 2
    /\ fout.row.missing_count = 2

\* C24: every row of the report, a row produced after a fetch failure or an
\* unexpected exception included, has source_type "ICS" or "HTML".
C24_SourceTypeIcsOrHtml ==
    out_json.written =>
      \A i \in 1..Len(out_json.rows) : out_json.rows[i].source_type \in {"ICS", "HTML"}

\* C25: in the summary of any list of rows, rows_with_source_count +
\* rows_without_source_count = total_venues_checked, and each row with
\* source_event_count > 0 is counted in exactly one of the six buckets 0,
\* (0,0.25], (0.25,0.5], (0.5,0.75], (0.75,1), ==1, so the six counts sum to
\* rows_with_source_count.
RowsWithCoverage(rs, lo, hi) ==
    Cardinality({i \in 1..Len(rs) : /\ rs[i].source_event_count > 0
                                    /\ ~rs[i].coverage_ratio.none
                                    /\ rs[i].coverage_ratio.v \in lo..hi})

C25_SummaryCounts ==
    (fpc = "done" /\ "summary_rows" \in DOMAIN fin) =>
      LET rs   == fin.summary_rows
          dist == fout.coverage_distribution_with_source
      IN  /\ fout.rows_with_source_count + fout.rows_without_source_count
               = fout.total_venues_checked
          /\ fout.total_venues_checked = Len(rs)
          /\ dist.zero = RowsWithCoverage(rs, 0, 0)
          /\ dist.one_to_25 = RowsWithCoverage(rs, 1, 2500)
          /\ dist.twenty6_to_50 = RowsWithCoverage(rs, 2501, 5000)
          /\ dist.fifty1_to_75 = RowsWithCoverage(rs, 5001, 7500)
          /\ dist.seventy6_to_99 = RowsWithCoverage(rs, 7501, 9999)
          /\ dist.hundred = RowsWithCoverage(rs, 10000, 10000)
          /\ dist.zero + dist.one_to_25 + dist.twenty6_to_50 + dist.fifty1_to_75
               + dist.seventy6_to_99 + dist.hundred = fout.rows_with_source_count

\* a row on the bucket limit 0.25, a row without source events
C25_Witness ==
    /\ fpc = "done"
    /\ "summary_rows" \in DOMAIN fin
    /\ Len(fin.summary_rows) = 2
    /\ fin.summary_rows[1].coverage_ratio = Some(2500)
    /\ fin.summary_rows[2].source_event_count = 0
    /\ fout.coverage_distribution_with_source.one_to_25 = 1
    /\ fout.rows_without_source_count = 1

\* C26: in parse_ics_events, for every non-cancelled VEVENT, a URL that
\* resolves but is not same-site with the venue's domain is discarded while
\* the event is kept under its title-based key; the event is dropped only
\* when it has neither a title nor a same-site URL; no two output events
\* share a key, and the first occurrence in feed order is the one kept.
IsLive(block) == Upper(FieldOf(block, "STATUS", "")) # "CANCELLED"

BlockTitle(block) == decode_ics_value(FieldOf(block, "SUMMARY", <<>>))

BlockDate(block) == parse_ics_datetime(FieldOf(block, "DTSTART", EmptyDate))

BlockUrl(block) == canonicalize_url(FieldOf(block, "URL", NoUrl), fin.calendar_url)

HasSameSiteUrl(block) == BlockUrl(block) # NoUrl /\ is_same_site(BlockUrl(block), fin.domain)

HasExternalUrl(block) == BlockUrl(block) # NoUrl /\ ~is_same_site(BlockUrl(block), fin.domain)

IsKept(block) == IsLive(block) /\ (BlockTitle(block) # <<>> \/ HasSameSiteUrl(block))

BlockEvent(block) ==
    LET url == IF HasSameSiteUrl(block) THEN BlockUrl(block) ELSE NoUrl
    IN  Event(IF HasSameSiteUrl(block)
              THEN UrlKey(canonicalize_url(url, fin.calendar_url))
              ELSE TitleKey(normalize_title_for_key(BlockTitle(block)),
                            normalize_date_for_key(BlockDate(block))),
              url, BlockTitle(block), BlockDate(block))

FirstBlockWithKey(blocks, key) ==
    CHOOSE i \in 1..Len(blocks) :
      /\ IsKept(blocks[i]) /\ BlockEvent(blocks[i]).key = key
      /\ \A j \in 1..(i - 1) : ~(IsKept(blocks[j]) /\ BlockEvent(blocks[j]).key = key)

IsCanonical(url) == url # NoUrl /\ canonicalize_url(url, NoUrl) = url

HtmlEventUrlsAccepted(events, domain) ==
    \A k \in 1..Len(events) :
      /\ is_same_site(events[k].eventUrl, domain)
      /\ likely_event_url(events[k].eventUrl)

HtmlKeysDistinct(events) ==
    \A k, l \in 1..Len(events) : k # l => events[k].key # events[l].key

FirstCandidateWins(events, candidates, calendar_url) ==
    \A k \in 1..Len(events) :
      LET same  == {i \in 1..Len(candidates) :
                      canonicalize_url(candidates[i].url, calendar_url) = events[k].eventUrl}
          first == CHOOSE i \in same : \A j \in same : i <= j
      IN  /\ same # {}
          /\ events[k].title = IF candidates[first].title # <<>>
                                THEN candidates[first].title
                                ELSE infer_title_from_url(events[k].eventUrl)

C27_HtmlEventRules ==
    (fpc = "done" /\ "venues" \in DOMAIN fin /\ "row" \in DOMAIN fout
       /\ fout.row.source_type = "HTML") =>
      /\ \A k \in 1..Len(fout.source_events) : IsCanonical(fout.source_events[k].eventUrl)
      /\ HtmlEventUrlsAccepted(fout.source_events, fin.venue.domain)
      /\ HtmlKeysDistinct(fout.source_events)
      /\ FirstCandidateWins(fout.source_events,
                            html_candidates(fin.raw.text, fin.jina.text),
                            fin.venue.calendar_url)

\* C28: venues are processed strictly one after another: for each selected
\* venue both retrieval paths are attempted (the second fetch is issued even
\* when the first one fails), and no fetch for a later venue is issued before
\* the row of the preceding venue has been appended to the row list.
BothPathsFetched(i) ==
    \E k, l \in 1..Len(net) :
      /\ k < l
      /\ net[k] = [path |-> "jina", venue |-> i]
      /\ net[l] = [path |-> "raw", venue |-> i]

NoFetchAhead == \A k \in 1..Len(net) : net[k].venue <= Len(rows) + 1

C28_OneVenueAtATime ==
    /\ \A i \in 1..Len(rows) : BothPathsFetched(i)
    /\ NoFetchAhead

\* C29: when a venue's source is detected as ICS and the raw fetch of the
\* calendar URL returned a well-formed ICS feed with at least one
\* non-cancelled VEVENT that has a title, the venue's row has
\* source_event_count > 0, whatever the reader-proxy fetch returned.
RawFeedHasLiveTitledEvent ==
    /\ fin.raw.error = NoError
    /\ fin.raw.text.kind = "ics"
    /\ \E i \in 1..Len(fin.raw.text.blocks) :
         /\ ~HasCancelledLine(fin.raw.text.blocks[i])
         /\ BlockTitle(fin.raw.text.blocks[i]) # <<>>

C29_RawIcsFeedCounts ==
    (fpc = "done" /\ "raw" \in DOMAIN fin /\ fout.row.source_type = "ICS"
       /\ RawFeedHasLiveTitledEvent) =>
      fout.row.source_event_count > 0

\* C30: the listing-view and utility exclusions of likely_event_url apply to
\* whole path segments only: a URL with path /events/<slug>, where <slug> is
\* a single segment that is not itself one of the excluded names, is accepted
\* even when <slug> merely begins with such a name.
IsExcludedName(seg) ==
    \/ seg \in ListingNames \cup TaxonomyNames \cup UtilityPrefixes \cup {"page", "api"}
    \/ IsVersionSeg(seg)

IsEventsSlugPath(path) ==
    /\ Len(path) = 4
    /\ path[1] = "/" /\ path[2] = "events" /\ path[3] = "/"
    /\ path[4] \notin {"/", "event", "events"}
    /\ ~IsExcludedName(path[4])

C30_WholeSegmentExclusions ==
    (fpc = "done" /\ "url" \in DOMAIN fin /\ IsEventsSlugPath(LowerSeq(fin.url.path)))
    => fout.result = TRUE

====
